---- MODULE Spec2Model ----
(***************************************************************************)
(* State-machine model of the two command-line scripts of the stock        *)
(* analysis agent: app.py (basic workflow) and main.py (professional       *)
(* workflow).  A state is taken wherever the program blocks: in input(),   *)
(* in the market-data fetch, and in an LLM request.  Everything a script   *)
(* runs between two blocking points is part of the action that leaves the  *)
(* first one.  `log' is the list of what the current analysis has called,  *)
(* got back, raised and printed since the last line was read.              *)
(***************************************************************************)
EXTENDS Integers, Sequences, FiniteSets, TLC

VARIABLES script, pc, nprompts, line, ticker, inflight, results, data,
          technical_indicators, log

vars == <<script, pc, nprompts, line, ticker, inflight, results, data,
          technical_indicators, log>>

(* ------------------------------ bounds --------------------------------- *)

MaxPrompts == 2

ExtraCloses == 5

PriceA == 10

PriceB == 12

(* ------------------------- program constants --------------------------- *)

SmaShortWindow == 50

SmaLongWindow == 200

BollingerStdWindow == 20

BollingerWidth == 2

(* ------------------------------ strings -------------------------------- *)
(* A line of text typed by the user is a sequence of one-character         *)
(* strings, so that str.strip, str.upper and str.lower act on characters.  *)

LowerLetters == <<"a", "e", "i", "l", "p", "q", "t", "u", "x">>

UpperLetters == <<"A", "E", "I", "L", "P", "Q", "T", "U", "X">>

Whitespace == {" ", "\t"}

RECURSIVE IndexIn(_, _, _)
IndexIn(c, letters, i) ==
  IF i > Len(letters) THEN 0
  ELSE IF letters[i] = c THEN i
  ELSE IndexIn(c, letters, i + 1)

UpperChar(c) ==
  LET i == IndexIn(c, LowerLetters, 1) IN IF i = 0 THEN c ELSE UpperLetters[i]

LowerChar(c) ==
  LET i == IndexIn(c, UpperLetters, 1) IN IF i = 0 THEN c ELSE LowerLetters[i]

Upper(s) == [i \in 1..Len(s) |-> UpperChar(s[i])]

Lower(s) == [i \in 1..Len(s) |-> LowerChar(s[i])]

RECURSIVE LStrip(_)
LStrip(s) ==
  IF s = <<>> THEN s
  ELSE IF Head(s) \in Whitespace THEN LStrip(Tail(s))
  ELSE s

RECURSIVE RStrip(_)
RStrip(s) ==
  IF s = <<>> THEN s
  ELSE IF s[Len(s)] \in Whitespace THEN RStrip(SubSeq(s, 1, Len(s) - 1))
  ELSE s

Strip(s) == RStrip(LStrip(s))

ExitWords == {<<"q", "u", "i", "t">>, <<"e", "x", "i", "t">>}

IsExitCommandNoLower(t) == t \in ExitWords

IsExitCommand(t) == Lower(t) \in ExitWords

NormalizeNoStrip(raw) == Upper(raw)

Normalize(raw) == Upper(Strip(raw))

(* The lines the user may type. *)
InputLines ==
  { <<"q", "u", "i", "t">>,
    <<" ", "Q", "u", "I", "t", "\t">>,
    <<"E", "X", "I", "T">>,
    <<"\t", "e", "x", "i", "t", " ">>,
    <<>>,
    <<" ", "\t", " ">>,
    <<"a", "a", "p", "l">>,
    <<" ", "A", "a", "p", "L", " ">>,
    <<"q", "u", "i", "t", "e">>,
    <<"e", "x", " ", "i", "t">> }

(* ------------------------------ values --------------------------------- *)
(* Python values are tagged records, so that None, numbers and strings can  *)
(* be told apart.                                                           *)

None == [t |-> "none"]

Num(n) == [t |-> "int", v |-> n]

Text(x) == [t |-> "str", v |-> x]

(* A str held as its sequence of characters. *)
Chars(s) == [t |-> "str", chars |-> s]

NaN == [t |-> "nan"]

Truthy(x) ==
  CASE x.t = "none" -> FALSE
    [] x.t = "int" -> x.v # 0
    [] x.t = "str" -> x.v # ""
    [] OTHER -> TRUE

RECURSIVE GCD(_, _)
GCD(a, b) == IF b = 0 THEN a ELSE GCD(b, a % b)

Abs(a) == IF a < 0 THEN -a ELSE a

(* The exact quotient n/d (d > 0) in lowest terms. *)
Rat(n, d) ==
  LET g == GCD(Abs(n), d)
  IN [t |-> "rat", num |-> n \div g, den |-> d \div g]

(* ------------------- technical indicators (main.py) -------------------- *)

RECURSIVE SumRange(_, _, _)
SumRange(s, lo, hi) ==
  IF lo > hi THEN 0
  ELSE IF lo = hi THEN s[lo]
  ELSE LET m == (lo + hi) \div 2
       IN SumRange(s, lo, m) + SumRange(s, m + 1, hi)

SumSeq(s) == SumRange(s, 1, Len(s))

Squares(s) == [i \in 1..Len(s) |-> s[i] * s[i]]

LastN(s, w) == SubSeq(s, Len(s) - w + 1, Len(s))

(* Last element of closes.rolling(window=w).mean(): NaN until w values. *)
RollingMeanLast(closes, w) ==
  IF Len(closes) < w THEN NaN ELSE Rat(SumSeq(LastN(closes, w)), w)

(* Square of the last element of closes.rolling(window=w).std(): the sample *)
(* variance (ddof = 1) of the last w closes, NaN until w values.            *)
RollingVarLast(closes, w) ==
  IF Len(closes) < w \/ w < 2 THEN NaN
  ELSE LET win == LastN(closes, w)
           sm == SumSeq(win)
       IN Rat(w * SumSeq(Squares(win)) - sm * sm, w * (w - 1))

(* The number mid + k * sqrt(var), kept exactly as (mid, k, var). *)
Band(mid, k, var) ==
  IF mid = NaN \/ var = NaN THEN NaN
  ELSE [t |-> "band", mid |-> mid, k |-> k, var |-> var]

(* calculate_technical_indicators: the entries of the returned dict that    *)
(* the report's bands and averages come from; an empty price history makes  *)
(* .iloc[-1] raise IndexError.                                              *)
calculate_technical_indicators(hist) ==
  LET closes == hist.Close
      sma_50 == RollingMeanLast(closes, SmaShortWindow)
      sma_200 == RollingMeanLast(closes, SmaLongWindow)
      rolling_var == RollingVarLast(closes, BollingerStdWindow)
  IN IF closes = <<>>
     THEN [raised |-> "IndexError: single positional indexer is out-of-bounds"]
     ELSE [raised |-> "",
           value |-> [sma_50 |-> sma_50,
                      sma_200 |-> sma_200,
                      upper_band |-> Band(sma_50, BollingerWidth, rolling_var),
                      lower_band |-> Band(sma_50, -BollingerWidth, rolling_var)]]

(* generate_valuation_metrics: info.get(...) passes values through; the     *)
(* interest coverage divides and raises TypeError on a missing numerator.   *)
generate_valuation_metrics(info) ==
  LET ebit == info.earningsBeforeInterestTaxes
      interest == info.interestExpense
  IN IF Truthy(interest) /\ ebit.t # "int"
     THEN [raised |-> "TypeError: unsupported operand type(s) for /"]
     ELSE [raised |-> "",
           value |-> [valuation |-> [pe_ratio |-> info.trailingPE],
                      financial_health |->
                        [debt_to_equity |-> info.debtToEquity,
                         interest_coverage |->
                           IF Truthy(interest)
                           THEN (IF interest.v > 0
                                 THEN Rat(ebit.v, interest.v)
                                 ELSE Rat(-ebit.v, -interest.v))
                           ELSE None]]]

(* ------------------------- market data (inputs) ------------------------ *)

Closes(n, tail) == [i \in 1..n |-> IF i <= n - tail THEN PriceA ELSE PriceB]

HistoryLens ==
  {0, BollingerStdWindow - 1, BollingerStdWindow, SmaShortWindow,
   SmaShortWindow + ExtraCloses, SmaLongWindow}

TailLens ==
  {0, BollingerStdWindow \div 2, BollingerStdWindow,
   SmaShortWindow - ExtraCloses}

Histories ==
  {[Close |-> Closes(p[1], p[2])] :
     p \in {q \in HistoryLens \X TailLens : q[2] <= q[1]}}

Infos ==
  { [longName |-> Text("Apple Inc."), sector |-> Text("Technology"),
     industry |-> Text("Consumer Electronics"), marketCap |-> Num(2500000),
     currentPrice |-> Num(15025), fiftyTwoWeekHigh |-> Num(19900),
     fiftyTwoWeekLow |-> Num(12400), averageVolume |-> Num(58000),
     trailingPE |-> Num(28), debtToEquity |-> Num(150),
     earningsBeforeInterestTaxes |-> Num(120), interestExpense |-> Num(-4)],
    [longName |-> None, sector |-> None, industry |-> None,
     marketCap |-> None, currentPrice |-> Num(0), fiftyTwoWeekHigh |-> None,
     fiftyTwoWeekLow |-> None, averageVolume |-> Num(0),
     trailingPE |-> None, debtToEquity |-> None,
     earningsBeforeInterestTaxes |-> None, interestExpense |-> None],
    [longName |-> Text("Acme Corp"), sector |-> Text("Industrials"),
     industry |-> None, marketCap |-> Text("1.5T"),
     currentPrice |-> Num(990), fiftyTwoWeekHigh |-> Num(1200),
     fiftyTwoWeekLow |-> Num(800), averageVolume |-> Num(1200),
     trailingPE |-> Num(12), debtToEquity |-> Num(40),
     earningsBeforeInterestTaxes |-> None, interestExpense |-> Num(3)] }

FetchErrors == {"HTTPError: 404", "ConnectionError: timed out"}

LLMErrors == {"RateLimitError: 429"}

Responses == {"text A", "text B"}

(* ---------------------- get_basic_stock_info (app.py) ------------------ *)
(* A text is a sequence of "key: value" lines.  A number formatted with a   *)
(* format spec is kept as (prefix, spec, number).                           *)

TextLine(k, v) == [k |-> k, v |-> v]

Formatted(prefix, spec, x) ==
  [t |-> "fmt", prefix |-> prefix, spec |-> spec, v |-> x.v]

(* f"{prefix}{x:spec}" if x else "N/A"; formatting a str with a numeric     *)
(* spec raises ValueError.                                                  *)
FormatOrNA(prefix, spec, x) ==
  IF ~Truthy(x) THEN [raised |-> "", value |-> Text("N/A")]
  ELSE IF x.t = "int" THEN [raised |-> "", value |-> Formatted(prefix, spec, x)]
  ELSE [raised |-> "ValueError: invalid format specifier for str"]

(* info.get(key, "N/A") *)
GetOrNA(x) == IF x.t = "none" THEN Text("N/A") ELSE x

ErrorTextBare(msg) == <<TextLine("N/A", Text(msg))>>

(* f"Error fetching stock info: {str(e)}" *)
ErrorText(msg) == <<TextLine("Error fetching stock info", Text(msg))>>

(* outcome: what yf.Ticker(ticker).info did: raised, or returned a dict.    *)
get_basic_stock_info(outcome) ==
  IF outcome.raised # "" THEN ErrorText(outcome.raised)
  ELSE
    LET info == outcome.info
        fields ==
          << <<"Market Cap", FormatOrNA("$", ",", info.marketCap)>>,
             <<"Current Price", FormatOrNA("$", ".2f", info.currentPrice)>>,
             <<"52 Week High", FormatOrNA("$", ".2f", info.fiftyTwoWeekHigh)>>,
             <<"52 Week Low", FormatOrNA("$", ".2f", info.fiftyTwoWeekLow)>>,
             <<"Average Volume", FormatOrNA("", ",", info.averageVolume)>> >>
        bad == {i \in 1..Len(fields) : fields[i][2].raised # ""}
        first == CHOOSE i \in bad : \A j \in bad : i <= j
    IN IF bad # {} THEN ErrorText(fields[first][2].raised)
       ELSE << TextLine("Name", GetOrNA(info.longName)),
               TextLine("Sector", GetOrNA(info.sector)),
               TextLine("Industry", GetOrNA(info.industry)) >>
            \o [i \in 1..Len(fields) |->
                  TextLine(fields[i][1], fields[i][2].value)]

(* ------------------------------- events -------------------------------- *)

EvPrint(what, val) == [e |-> "print", name |-> what, val |-> val]

EvCall(step, arg) == [e |-> "call", name |-> step, val |-> arg]

EvReturn(step, val) == [e |-> "return", name |-> step, val |-> val]

EvRaise(step, msg) == [e |-> "raise", name |-> step, val |-> Text(msg)]

(* ------------------------------ the chains ----------------------------- *)

AppStagesSwapped == <<"research", "recommendation", "analysis">>

AppStages == <<"research", "analysis", "recommendation">>

MainStages == <<"fundamental", "technical", "recommendation">>

Stages(s) == IF s = "app" THEN AppStages ELSE MainStages

AppInputsStale(k, t, stock_data, res) ==
  CASE k = 1 -> [template |-> "research", ticker |-> Chars(t),
                 stock_data |-> stock_data]
    [] k = 2 -> [template |-> "analysis", ticker |-> Chars(t),
                 research_report |-> res[1]]
    [] OTHER -> [template |-> "recommendation", ticker |-> Chars(t),
                 research_report |-> res[1], analysis_report |-> res[1]]

(* The dict analyze_stock passes to chains[stage].run for stage number k;   *)
(* res holds the results of the stages before k.                            *)
AppInputs(k, t, stock_data, res) ==
  CASE k = 1 -> [template |-> "research", ticker |-> Chars(t),
                 stock_data |-> stock_data]
    [] k = 2 -> [template |-> "analysis", ticker |-> Chars(t),
                 research_report |-> res[1]]
    [] OTHER -> [template |-> "recommendation", ticker |-> Chars(t),
                 research_report |-> res[1], analysis_report |-> res[2]]

(* str(x) *)
PyStr(x) == [t |-> "str()", of |-> x]

(* hist_data.describe() *)
Describe(hist) == [t |-> "describe()", of |-> hist]

(* The dict professional_analysis passes to chains[stage].run. *)
MainInputs(k, t, d, ti, vm, res) ==
  CASE k = 1 -> [template |-> "fundamental", ticker |-> Chars(t),
                 info |-> PyStr(d.info_dict.info),
                 valuation_metrics |-> PyStr(vm)]
    [] k = 2 -> [template |-> "technical", ticker |-> Chars(t),
                 technical_indicators |-> PyStr(ti),
                 price_data |-> PyStr(Describe(d.hist_data))]
    [] OTHER -> [template |-> "recommendation", ticker |-> Chars(t),
                 fundamental_analysis |-> res[1],
                 technical_analysis |-> res[2]]

(* ------------------------------ printing ------------------------------- *)

AppReportNothing(stage, r) == <<>>

(* app.py prints a stage's result right after its run() returned. *)
AppReport(stage, r) == <<EvPrint(stage, Text(r))>>

(* main.py prints the three results together, after the last run(). *)
MainDisplay(t, res) ==
  << EvPrint("report header", Chars(t)),
     EvPrint(MainStages[1], res[1]),
     EvPrint(MainStages[2], res[2]),
     EvPrint(MainStages[3], res[3]),
     EvPrint("completed", None) >>

FailedTwice(s, step, msg) ==
  << EvRaise(step, msg), EvPrint("error", Text(msg)),
     EvPrint("error", Text(msg)) >>

(* An exception that leaves a step: the except clause of main() in app.py,  *)
(* of professional_analysis in main.py, prints it once.                     *)
Failed(s, step, msg) == << EvRaise(step, msg), EvPrint("error", Text(msg)) >>

(* ------------------------------- states -------------------------------- *)

EOFLine == <<"<EOF>">>

FetchOutcomes ==
  {[raised |-> m] : m \in FetchErrors}
    \cup {[raised |-> "", info |-> i] : i \in Infos}

Init ==
  /\ script \in {"app", "main"}
  /\ pc = "input"
  /\ nprompts = 0
  /\ line = <<>>
  /\ ticker = <<>>
  /\ inflight = {}
  /\ results = <<>>
  /\ data = None
  /\ technical_indicators = None
  /\ log = <<>>

(* main(): one pass of the while loop up to the point where it blocks. *)
ReadLine(raw) ==
  /\ pc = "input"
  /\ nprompts < MaxPrompts
  /\ nprompts' = nprompts + 1
  /\ line' = raw
  /\ ticker' = Normalize(raw)
  /\ inflight' = {}
  /\ results' = <<>>
  /\ data' = None
  /\ technical_indicators' = None
  /\ IF IsExitCommand(ticker')
     THEN /\ log' = <<EvPrint("farewell", None)>>
          /\ pc' = "exited"
     ELSE IF ticker' = <<>>
     THEN /\ log' = <<EvPrint("Please enter a valid ticker symbol", None)>>
          /\ pc' = "input"
     ELSE /\ log' = IF script = "app"
                    THEN << EvPrint("analyzing", Chars(ticker')),
                            EvCall("fetch", Chars(ticker')) >>
                    ELSE << EvPrint("initiating", Chars(ticker')),
                            EvPrint("collecting", None),
                            EvCall("fetch", Chars(ticker')) >>
          /\ pc' = "fetch"
  /\ UNCHANGED script

(* input() raises EOFError: uncaught in app.py, printed by main.py. *)
ReadEOF ==
  /\ pc = "input"
  /\ nprompts < MaxPrompts
  /\ nprompts' = nprompts + 1
  /\ line' = EOFLine
  /\ inflight' = {}
  /\ results' = <<>>
  /\ data' = None
  /\ technical_indicators' = None
  /\ IF script = "app"
     THEN /\ log' = <<EvRaise("input", "EOFError")>>
          /\ pc' = "crashed"
     ELSE /\ log' = << EvRaise("input", "EOFError"),
                       EvPrint("loop error", Text("EOFError")) >>
          /\ pc' = "input"
  /\ UNCHANGED <<script, ticker>>

(* analyze_stock from the return of the fetch to the first run(). *)
AppFetched(outcome) ==
  /\ script = "app"
  /\ pc = "fetch"
  /\ LET stock_data == get_basic_stock_info(outcome)
     IN /\ data' = [stock_data |-> stock_data]
        /\ log' = log \o << IF outcome.raised # ""
                               THEN EvRaise("yfinance", outcome.raised)
                               ELSE EvReturn("yfinance", outcome.info),
                            EvReturn("fetch", stock_data),
                            EvPrint("basic information", stock_data),
                            EvCall(AppStages[1],
                                   AppInputs(1, ticker, stock_data, <<>>)) >>
  /\ inflight' = {AppStages[1]}
  /\ pc' = "llm"
  /\ UNCHANGED <<script, nprompts, line, ticker, results,
                 technical_indicators>>

(* professional_analysis from the return of the fetch to the first run(),   *)
(* or to its except clause.                                                 *)
MainFetched(outcome, hist) ==
  /\ script = "main"
  /\ pc = "fetch"
  /\ IF outcome.raised # ""
     THEN /\ log' = log \o Failed(script, "fetch", outcome.raised)
          /\ pc' = "input"
          /\ UNCHANGED <<data, technical_indicators, inflight>>
     ELSE
       LET info == outcome.info
           d == [info_dict |-> [info |-> info], hist_data |-> hist]
           ti == calculate_technical_indicators(hist)
           vm == generate_valuation_metrics(info)
           got == log \o << EvReturn("fetch", d),
                            EvPrint("calculating", None),
                            EvCall("indicators", hist) >>
       IN /\ data' = d
          /\ IF ti.raised # ""
             THEN /\ log' = got \o Failed(script, "indicators", ti.raised)
                  /\ pc' = "input"
                  /\ UNCHANGED <<technical_indicators, inflight>>
             ELSE
               LET got2 == got \o << EvReturn("indicators", ti.value),
                                     EvPrint("fundamentals", None),
                                     EvCall("valuation", info) >>
               IN /\ technical_indicators' = ti.value
                  /\ IF vm.raised # ""
                     THEN /\ log' = got2 \o Failed(script, "valuation",
                                                   vm.raised)
                          /\ pc' = "input"
                          /\ UNCHANGED inflight
                     ELSE /\ log' = got2 \o
                               << EvReturn("valuation", vm.value),
                                  EvPrint("conducting", None),
                                  EvCall(MainStages[1],
                                         MainInputs(1, ticker, d, ti.value,
                                                    vm.value, <<>>)) >>
                          /\ inflight' = {MainStages[1]}
                          /\ pc' = "llm"
  /\ UNCHANGED <<script, nprompts, line, ticker, results>>

(* The LLM request in flight returns r. *)
LLMReturn(r) ==
  /\ pc = "llm"
  /\ LET k == Len(results) + 1
         stages == Stages(script)
         res == Append(results, Text(r))
         vm == generate_valuation_metrics(data.info_dict.info).value
         inputs == IF script = "app"
                   THEN AppInputs(k + 1, ticker, data.stock_data, res)
                   ELSE MainInputs(k + 1, ticker, data, technical_indicators,
                                   vm, res)
         report == IF script = "app" THEN AppReport(stages[k], r) ELSE <<>>
     IN /\ results' = res
        /\ IF k < Len(stages)
           THEN /\ log' = log \o <<EvReturn(stages[k], Text(r))>> \o report
                            \o (IF script = "app" THEN <<>>
                                ELSE <<EvPrint("next stage", None)>>)
                            \o <<EvCall(stages[k + 1], inputs)>>
                /\ inflight' = (inflight \ {stages[k]}) \cup {stages[k + 1]}
                /\ pc' = "llm"
           ELSE /\ log' = log \o <<EvReturn(stages[k], Text(r))>> \o report
                            \o (IF script = "app" THEN <<>>
                                ELSE MainDisplay(ticker, res))
                /\ inflight' = inflight \ {stages[k]}
                /\ pc' = "input"
  /\ UNCHANGED <<script, nprompts, line, ticker, data, technical_indicators>>

(* The LLM request in flight raises. *)
LLMRaise(msg) ==
  /\ pc = "llm"
  /\ log' = log \o Failed(script, Stages(script)[Len(results) + 1], msg)
  /\ inflight' = {}
  /\ pc' = "input"
  /\ UNCHANGED <<script, nprompts, line, ticker, results, data,
                 technical_indicators>>

(* Ctrl-C while the script blocks: main.py ends its session, app.py has no  *)
(* handler for it.                                                          *)
KeyboardInterrupt ==
  /\ pc \in {"input", "fetch", "llm"}
  /\ inflight' = {}
  /\ IF script = "main"
     THEN /\ log' = log \o << EvRaise("interrupt", "KeyboardInterrupt"),
                              EvPrint("session terminated", None) >>
          /\ pc' = "interrupted"
     ELSE /\ log' = log \o <<EvRaise("interrupt", "KeyboardInterrupt")>>
          /\ pc' = "crashed"
  /\ UNCHANGED <<script, nprompts, line, ticker, results, data,
                 technical_indicators>>

Next ==
  \/ \E raw \in InputLines : ReadLine(raw)
  \/ ReadEOF
  \/ \E o \in FetchOutcomes : AppFetched(o)
  \/ \E o \in FetchOutcomes, h \in Histories : MainFetched(o, h)
  \/ \E r \in Responses : LLMReturn(r)
  \/ \E m \in LLMErrors : LLMRaise(m)
  \/ KeyboardInterrupt

Spec == Init /\ [][Next]_vars

(* ------------------------- reading the log ----------------------------- *)

LLMStageNames == {"research", "analysis", "fundamental", "technical",
                  "recommendation"}

StepNames == LLMStageNames \cup {"fetch", "indicators", "valuation"}

IsEv(i, kind, names) == log[i].e = kind /\ log[i].name \in names

Positions(kind, names) == {i \in 1..Len(log) : IsEv(i, kind, names)}

RECURSIVE NamesAt(_, _)
NamesAt(i, kind) ==
  IF i > Len(log) THEN <<>>
  ELSE IF IsEv(i, kind, LLMStageNames)
       THEN <<log[i].name>> \o NamesAt(i + 1, kind)
       ELSE NamesAt(i + 1, kind)

Interrupted == Positions("raise", {"interrupt"}) # {}

StepRaised == Positions("raise", StepNames) # {}

(* The analysis has run to its end and nothing was raised. *)
Completed == pc = "input" /\ Len(results) = 3 /\ ~StepRaised

ExpectedOrder ==
  IF script = "app" THEN <<"research", "analysis", "recommendation">>
  ELSE <<"fundamental", "technical", "recommendation">>

StageNo(name) == CHOOSE k \in 1..3 : ExpectedOrder[k] = name

(* The value stage number k returned, if it returned. *)
Returned(k) ==
  log[CHOOSE i \in Positions("return", {ExpectedOrder[k]}) : TRUE].val

Receives(inputs, v) ==
  \E f \in DOMAIN inputs \ {"template"} : inputs[f] = v

(* ------------------------------- claims -------------------------------- *)

(* C1: an analysis that completes without an exception has made exactly    *)
(* three LLM calls in the fixed order of its script; a call starts only     *)
(* after the call before it has returned, and at most one call is in        *)
(* flight at any time.                                                      *)
C1_ThreeSequentialCalls ==
  /\ Cardinality(inflight) <= 1
  /\ Completed => NamesAt(1, "call") = ExpectedOrder
  /\ \A j \in Positions("call", LLMStageNames) :
       \A i \in Positions("call", LLMStageNames) :
         i < j => \E r \in Positions("return", {log[i].name}) : i < r /\ r < j
  /\ \A n \in inflight :
       /\ Positions("call", {n}) # {}
       /\ Positions("return", {n}) = {}

C1_Witness == Completed /\ script = "main" /\ inflight = {}

(* C2 as stated: every stage after the first receives the output of the     *)
(* stage before it, and the final stage receives both earlier outputs and   *)
(* the ticker the first stage was given.                                    *)
C2_EveryStageReceivesPrevious ==
  \A i \in Positions("call", LLMStageNames) :
    LET k == StageNo(log[i].name)
    IN /\ k > 1 => Receives(log[i].val, Returned(k - 1))
       /\ k = 3 => /\ Receives(log[i].val, Returned(1))
                   /\ Receives(log[i].val, Returned(2))
       /\ log[i].val.ticker =
            log[CHOOSE c \in Positions("call", {ExpectedOrder[1]}) : TRUE]
              .val.ticker

(* C2 amended: in app.py every stage after the first receives the output    *)
(* of the stage before it; in main.py the technical stage receives no       *)
(* earlier output, only the ticker, the technical indicators and the price  *)
(* summary; in both scripts the recommendation stage receives the outputs   *)
(* of both earlier stages, and every stage the ticker of the first stage.   *)
C2_ThreadedOutputs ==
  \A i \in Positions("call", LLMStageNames) :
    LET k == StageNo(log[i].name)
        inputs == log[i].val
    IN /\ (script = "app" /\ k = 2) =>
            /\ inputs.research_report = Returned(1)
            /\ DOMAIN inputs = {"template", "ticker", "research_report"}
       /\ (script = "main" /\ k = 2) =>
            /\ ~Receives(inputs, Returned(1))
            /\ inputs.technical_indicators = PyStr(technical_indicators)
            /\ inputs.price_data = PyStr(Describe(data.hist_data))
            /\ DOMAIN inputs = {"template", "ticker", "technical_indicators",
                                "price_data"}
       /\ (script = "app" /\ k = 3) =>
            /\ inputs.research_report = Returned(1)
            /\ inputs.analysis_report = Returned(2)
       /\ (script = "main" /\ k = 3) =>
            /\ inputs.fundamental_analysis = Returned(1)
            /\ inputs.technical_analysis = Returned(2)
       /\ inputs.ticker = Chars(ticker)
       /\ inputs.ticker =
            log[CHOOSE c \in Positions("call", {ExpectedOrder[1]}) : TRUE]
              .val.ticker

C2_Witness ==
  /\ Positions("call", {"recommendation"}) # {}
  /\ Len(results) >= 2
  /\ results[1] # results[2]

Printed(i) ==
  \E j \in Positions("print", {log[i].name}) : j > i /\ log[j].val = log[i].val

(* C3 as stated: once an analysis is over, every response an LLM call       *)
(* returned during it has been printed, also when a later stage raised.     *)
C3_EveryResponsePrinted ==
  pc = "input" => \A i \in Positions("return", LLMStageNames) : Printed(i)

(* C3 amended: app.py prints each response right after its call returns,    *)
(* before the next stage starts, so also when a later stage raises; main.py *)
(* prints the three responses only after all three calls have returned, so  *)
(* when a stage raises none of the responses of that analysis is printed.   *)
C3_PrintedPerScript ==
  /\ script = "app" =>
       \A i \in Positions("return", LLMStageNames) :
         /\ i < Len(log)
         /\ log[i + 1] = EvPrint(log[i].name, log[i].val)
  /\ script = "main" =>
       /\ Len(results) = 3 =>
            \A i \in Positions("return", LLMStageNames) : Printed(i)
       /\ Len(results) < 3 => Positions("print", LLMStageNames) = {}

C3_Witness ==
  /\ script = "app"
  /\ pc = "input"
  /\ Len(results) = 2
  /\ Positions("raise", {"recommendation"}) # {}

(* C4: when a step of an analysis raises, no later step runs, the failed    *)
(* step is not run again, exactly one error message is printed for the      *)
(* analysis, and the loop is back at its prompt.                            *)
C4_SingleCatchAll ==
  StepRaised =>
    LET r == CHOOSE i \in Positions("raise", StepNames) : TRUE
    IN /\ Cardinality(Positions("raise", StepNames)) = 1
       /\ Positions("call", StepNames) \subseteq 1..(r - 1)
       /\ Positions("return", StepNames) \subseteq 1..(r - 1)
       /\ Cardinality(Positions("call", {log[r].name})) = 1
       /\ Cardinality({i \in 1..Len(log) :
                         log[i].e = "print" /\ log[i].name = "error"}) = 1
       /\ log[r + 1] = EvPrint("error", log[r].val)
       /\ inflight = {}
       /\ ~Interrupted => pc = "input"

C4_Witness ==
  /\ script = "main"
  /\ Positions("raise", {"valuation"}) # {}
  /\ pc = "input"

QuitLines ==
  { <<"q", "u", "i", "t">>,
    <<" ", "Q", "u", "I", "t", "\t">>,
    <<"E", "X", "I", "T">>,
    <<"\t", "e", "x", "i", "t", " ">> }

C5_ExitedState ==
  line \in QuitLines =>
    /\ pc = "exited"
    /\ log = <<EvPrint("farewell", None)>>
    /\ inflight = {}

(* C5: a line that is quit or exit, in any letter case and with whitespace  *)
(* around it, ends the session: the farewell is printed, nothing is         *)
(* fetched, no LLM call is made and the session takes no further step.      *)
C5_QuitEndsSession ==
  /\ []C5_ExitedState
  /\ [][pc = "exited" => UNCHANGED vars]_vars

C5_Witness ==
  pc = "exited" /\ line = <<" ", "Q", "u", "I", "t", "\t">>

BlankLines == { <<>>, <<" ", "\t", " ">> }

ExpectedTicker(raw) ==
  CASE raw = <<"a", "a", "p", "l">> -> <<"A", "A", "P", "L">>
    [] raw = <<" ", "A", "a", "p", "L", " ">> -> <<"A", "A", "P", "L">>
    [] raw = <<"q", "u", "i", "t", "e">> -> <<"Q", "U", "I", "T", "E">>
    [] raw = <<"e", "x", " ", "i", "t">> -> <<"E", "X", " ", "I", "T">>
    [] OTHER -> <<"?">>

(* C6: a line that is empty after trimming starts no analysis: the 'valid   *)
(* ticker' message is printed, nothing is fetched, no LLM call is made and  *)
(* the loop prompts again; an analysis starts only for a non-empty,         *)
(* non-exit line and is given that line trimmed and upper-cased.            *)
C6_BlankLineNoAnalysis ==
  /\ (line \in BlankLines /\ nprompts > 0 /\ ~Interrupted) =>
       /\ pc = "input"
       /\ log = <<EvPrint("Please enter a valid ticker symbol", None)>>
       /\ inflight = {}
  /\ Positions("call", StepNames) # {} =>
       /\ line \notin BlankLines \cup QuitLines \cup {EOFLine}
       /\ ticker = ExpectedTicker(line)
       /\ \A i \in Positions("call", {"fetch"}) :
            log[i].val = Chars(ExpectedTicker(line))
       /\ \A i \in Positions("call", LLMStageNames) :
            log[i].val.ticker = Chars(ExpectedTicker(line))

C6_Witness ==
  /\ line = <<" ", "\t", " ">>
  /\ pc = "input"
  /\ nprompts > 0
  /\ log = <<EvPrint("Please enter a valid ticker symbol", None)>>

(* C7: upper_band and lower_band are the moving average of the closes plus  *)
(* and minus two rolling standard deviations, the average and the standard  *)
(* deviation taken over one and the same window of most recent closes.      *)
C7_BollingerSameWindow ==
  (script = "main" /\ technical_indicators # None) =>
    \E w \in 2..SmaLongWindow :
      LET closes == data.hist_data.Close
          mean == RollingMeanLast(closes, w)
          var == RollingVarLast(closes, w)
      IN /\ technical_indicators.upper_band = Band(mean, 2, var)
         /\ technical_indicators.lower_band = Band(mean, -2, var)

FetchFailedInside ==
  \/ Positions("raise", {"yfinance"}) # {}
  \/ \E i \in Positions("return", {"yfinance"}) :
       \E f \in {"marketCap", "currentPrice", "fiftyTwoWeekHigh",
                 "fiftyTwoWeekLow", "averageVolume"} :
         log[i].val[f].t = "str" /\ log[i].val[f].v # ""

(* C8: in app.py get_basic_stock_info never raises; on an exception it      *)
(* returns a text starting 'Error fetching stock info:', and analyze_stock  *)
(* goes on to its three LLM calls, the research stage getting that text as  *)
(* the stock data.                                                          *)
C8_FetchFailureDoesNotStop ==
  script = "app" =>
    /\ Positions("raise", {"fetch"}) = {}
    /\ FetchFailedInside =>
         /\ Head(data.stock_data).k = "Error fetching stock info"
         /\ \E i \in Positions("call", {"research"}) :
              /\ log[i].val.stock_data = data.stock_data
              /\ Positions("print", {"error"}) \subseteq (i + 1)..Len(log)
         /\ (pc = "input" /\ ~StepRaised /\ ~Interrupted) =>
              NamesAt(1, "call") = <<"research", "analysis", "recommendation">>

C8_Witness ==
  /\ script = "app"
  /\ Positions("raise", {"yfinance"}) # {}
  /\ pc = "input"
  /\ Len(results) = 3

====
